---- MODULE Spec2Model ----
(***************************************************************************)
(* Model of the AIS training-data pipeline:                               *)
(*   src/pipeline/processing.py  region split, cleaning, dataset build    *)
(*   src/pipeline/db_utils.py    month-partition delete and append        *)
(*   src/run_pipeline.py         process_single_file                      *)
(* A DataFrame is a sequence of rows; a row is a record carrying its      *)
(* pandas index label (idx), its position in the raw table (id, a ghost   *)
(* used to tell rows apart) and the columns the code reads.  Latitudes    *)
(* and longitudes are in tenths of a degree, times in seconds, speeds in  *)
(* knots.  Source.utils_1 (feature builder and window sampler) is not     *)
(* among the source files and is modelled from the specification.         *)
(***************************************************************************)
EXTENDS Integers, Sequences, FiniteSets, TLC

VARIABLES
    pc,         \* "input", "split_done", "done" or "db"
    gen,        \* progress of the table generator (deviating rows, tracks)
    cols,       \* the columns of the table
    df,         \* the table given to the function under study
    regions,    \* the result of split_regions_by_lat
    err,        \* the exception raised by the last call, "" if none
    returned,   \* the last call returned a result
    top_mmsi,   \* the vessels kept by the top-count selection
    df_sel,     \* the rows passed to _basic_cleaning
    df_clean,   \* the result of _basic_cleaning
    df_train,   \* the samples of the returned dataset
    tables,     \* the training tables of the yearly databases
    databases,  \* the yearly databases that exist
    last        \* the last run of process_single_file

vars == <<pc, gen, cols, df, regions, err, returned, top_mmsi, df_sel, df_clean,
          df_train, tables, databases, last>>

(***************************************************************************)
(* Program constants                                                       *)
(***************************************************************************)
OFFSHORE_LAT_MIN == 332
OFFSHORE_LAT_MAX == 341
OFFSHORE_LON_MIN == -1191
OFFSHORE_LON_MAX == -1179
BAY_LAT_MIN == 375
BAY_LAT_MAX == 382
BAY_LON_MIN == -1230
BAY_LON_MAX == -1218

\* Arguments of the call of build_sequence_samples_limited.
SEQ_LEN == 10
STOP_SPEED == 6
MAX_TIME_GAP == 300
STRIDE == 1
MAX_SOG == 40

(***************************************************************************)
(* Volume caps.  The source fixes them at 350 vessels per region, 270,000 *)
(* samples per vessel group and 100 vessel groups.  They are parameters   *)
(* of the selection and of the sampler; the model instantiates them small *)
(* enough for tables of a few dozen rows to reach each of them, and every *)
(* property below is stated in terms of the names, not of the values.     *)
(***************************************************************************)
TOP_MMSI_PER_REGION == 3
MAX_SAMPLES_PER_GROUP == 2
MAX_TOTAL_GROUPS == 2

(***************************************************************************)
(* Bounds of the model                                                     *)
(***************************************************************************)
MaxGeoRows == 2      \* rows of a table given to split_regions_by_lat
MaxRows == 13        \* rows of a region table built row by row
MaxTracks == 4       \* vessels of a region table built track by track
MaxSchemaRows == 1   \* rows of a table with missing columns
MaxRuns == 3         \* runs of process_single_file
MaxTrain == 1        \* rows of a dataset handed to the database
MaxDev == 1          \* deviating rows of a region table built row by row

NaT == -1
RegionNames == {"offshore", "bay"}
RequiredCols == {"BaseDateTime", "LAT", "LON", "SOG", "COG", "Heading", "MMSI"}

Row(i, mmsi, t, lat, lon, sog) ==
    [idx |-> i - 1, id |-> i, MMSI |-> mmsi, BaseDateTime |-> t,
     LAT |-> lat, LON |-> lon, SOG |-> sog]

NoRegions == [offshore |-> <<>>, bay |-> <<>>]

Min(a, b) == IF a <= b THEN a ELSE b
Max(a, b) == IF a >= b THEN a ELSE b

(***************************************************************************)
(* pandas helpers                                                          *)
(***************************************************************************)
\* DataFrame.reset_index(drop=True): labels renumbered 0..n-1.
reset_index(d) == [i \in 1..Len(d) |-> [d[i] EXCEPT !.idx = i - 1]]

\* set of vessel identifiers of a table
Vessels(d) == {d[i].MMSI : i \in 1..Len(d)}

(***************************************************************************)
(* split_regions_by_lat                                                    *)
(***************************************************************************)
\* mutant: strict lower latitude bound
mask_offshore_strict(r) ==
    /\ r.LAT > OFFSHORE_LAT_MIN
    /\ r.LAT <= OFFSHORE_LAT_MAX
    /\ r.LON >= OFFSHORE_LON_MIN
    /\ r.LON <= OFFSHORE_LON_MAX

mask_offshore(r) ==
    /\ r.LAT >= OFFSHORE_LAT_MIN
    /\ r.LAT <= OFFSHORE_LAT_MAX
    /\ r.LON >= OFFSHORE_LON_MIN
    /\ r.LON <= OFFSHORE_LON_MAX

\* mutant: the bay mask copied from the offshore one without renaming
mask_bay_copied(r) ==
    /\ r.LAT >= OFFSHORE_LAT_MIN
    /\ r.LAT <= OFFSHORE_LAT_MAX
    /\ r.LON >= OFFSHORE_LON_MIN
    /\ r.LON <= OFFSHORE_LON_MAX

mask_bay(r) ==
    /\ r.LAT >= BAY_LAT_MIN
    /\ r.LAT <= BAY_LAT_MAX
    /\ r.LON >= BAY_LON_MIN
    /\ r.LON <= BAY_LON_MAX

\* the schema guard of split_regions_by_lat
split_schema_ok(c) == "LAT" \in c /\ "LON" \in c

split_regions_by_lat(d) ==
    [offshore |-> reset_index(SelectSeq(d, mask_offshore)),
     bay |-> reset_index(SelectSeq(d, mask_bay))]

(***************************************************************************)
(* _basic_cleaning                                                         *)
(***************************************************************************)
\* mutant: the schema check finds nothing missing
missing_none(c) == {}

missing(c) == RequiredCols \ c

\* dropna after to_datetime(errors="coerce"): an unparseable timestamp is NaT
dropna(d) == SelectSeq(d, LAMBDA r : r.BaseDateTime # NaT)

\* mutant: strict speed bounds
sog_filter_strict(d) == SelectSeq(d, LAMBDA r : r.SOG > 6 /\ r.SOG < 40)

sog_filter(d) == SelectSeq(d, LAMBDA r : r.SOG >= 6 /\ r.SOG <= 40)

KeyLe(a, b) ==
    \/ a.MMSI < b.MMSI
    \/ a.MMSI = b.MMSI /\ a.BaseDateTime <= b.BaseDateTime

\* the position after the last row of sorted s whose key is not greater than
\* r's: a row goes behind the rows of equal key that came before it
RECURSIVE InsertPos(_, _, _)
InsertPos(s, r, i) ==
    IF i = 0 THEN 1
    ELSE IF KeyLe(s[i], r) THEN i + 1
    ELSE InsertPos(s, r, i - 1)

InsertRow(s, r) ==
    LET p == InsertPos(s, r, Len(s))
    IN SubSeq(s, 1, p - 1) \o <<r>> \o SubSeq(s, p, Len(s))

\* DataFrame.sort_values(["MMSI", "BaseDateTime"]): a stable sort
RECURSIVE SortFrom(_, _, _)
SortFrom(d, i, acc) ==
    IF i > Len(d) THEN acc ELSE SortFrom(d, i + 1, InsertRow(acc, d[i]))

sort_values(d) == SortFrom(d, 1, <<>>)

\* mutant: the sort is left out
basic_cleaning_unsorted(d) == reset_index(sog_filter(dropna(d)))

basic_cleaning(d) == reset_index(sort_values(sog_filter(dropna(d))))

(***************************************************************************)
(* Vessel selection of build_training_dataset_for_region                   *)
(***************************************************************************)
\* mutant: the rows are counted after the speed filter
group_size_filtered(d, v) ==
    Cardinality({i \in 1..Len(d) : d[i].MMSI = v /\ d[i].SOG >= 6 /\ d[i].SOG <= 40})

\* df.groupby("MMSI").size(): rows per vessel of the table as given
group_size(d, v) == Cardinality({i \in 1..Len(d) : d[i].MMSI = v})

\* .sort_values(ascending=False): the orders of the vessels by descending
\* count.  The order among equal counts is fixed by the sort algorithm and
\* is not specified; every order is allowed.
sorted_counts(d) ==
    LET V == Vessels(d)
        n == Cardinality(V)
    IN {o \in [1..n -> V] :
          /\ \A i, j \in 1..n : i # j => o[i] # o[j]
          /\ \A i, j \in 1..n : i < j => group_size(d, o[i]) >= group_size(d, o[j])}

\* mutant: head() is left out, every vessel is kept
head_index_all(o) == {o[i] : i \in 1..Len(o)}

\* counts.head(TOP_MMSI_PER_REGION).index
head_index(o) == {o[i] : i \in 1..Min(TOP_MMSI_PER_REGION, Len(o))}

\* df_region[df_region["MMSI"].isin(top_mmsi)]
isin_filter(d, top) == SelectSeq(d, LAMBDA r : r.MMSI \in top)

(***************************************************************************)
(* Source.utils_1, from the specification (sections 4.4 and 4.5)           *)
(***************************************************************************)
\* build_phase_features: one FeatureRow per row, in the same order
build_phase_features(d) == d

\* the rows of one vessel, in table order
group_rows(d, v) == SelectSeq(d, LAMBDA r : r.MMSI = v)

\* a window of L rows starting at (1-based) row s of trajectory g is valid
window_valid(g, s, L, stop_speed, max_sog, max_gap) ==
    /\ \A j \in s..(s + L - 1) : g[j].SOG >= stop_speed /\ g[j].SOG <= max_sog
    /\ \A j \in s..(s + L - 2) : g[j + 1].BaseDateTime - g[j].BaseDateTime <= max_gap

\* the samples of one trajectory: the valid windows that have a following
\* row, in order of their start, up to the per-vessel cap
RECURSIVE group_samples(_, _, _, _, _, _, _, _, _)
group_samples(g, s, L, stride, stop_speed, max_sog, max_gap, cap, acc) ==
    IF s + L > Len(g) \/ Len(acc) >= cap THEN acc
    ELSE IF window_valid(g, s, L, stop_speed, max_sog, max_gap)
         THEN group_samples(g, s + stride, L, stride, stop_speed, max_sog, max_gap, cap,
                            Append(acc, [win |-> SubSeq(g, s, s + L - 1),
                                         target |-> g[s + L]]))
         ELSE group_samples(g, s + stride, L, stride, stop_speed, max_sog, max_gap, cap, acc)

\* the vessel groups in processing order (ascending identifier)
RECURSIVE group_keys(_)
group_keys(V) ==
    IF V = {} THEN <<>>
    ELSE LET m == CHOOSE v \in V : \A w \in V : v <= w
         IN <<m>> \o group_keys(V \ {m})

\* build_sequence_samples_limited: one shard per vessel group, for the first
\* max_total_groups groups
RECURSIVE shards_from(_, _, _, _, _, _, _, _, _, _)
shards_from(d, keys, k, L, stride, stop_speed, max_sog, max_gap, cap, max_groups) ==
    IF k > Len(keys) \/ k > max_groups THEN <<>>
    ELSE group_samples(group_rows(d, keys[k]), 1, L, stride, stop_speed, max_sog,
                       max_gap, cap, <<>>)
         \o shards_from(d, keys, k + 1, L, stride, stop_speed, max_sog, max_gap, cap,
                        max_groups)

\* pd.concat(build_sequence_samples_limited(...))
build_sequence_samples_limited(d, L, stop_speed, max_gap, stride, max_sog, cap, max_groups) ==
    shards_from(d, group_keys(Vessels(d)), 1, L, stride, stop_speed, max_sog, max_gap,
                cap, max_groups)

(***************************************************************************)
(* build_training_dataset_for_region                                       *)
(***************************************************************************)
\* the result of one call on table d with columns c, the vessels having been
\* ranked in order o
build_training_dataset_for_region(d, c, o) ==
    IF d = <<>>
    THEN [err |-> "", top |-> {}, sel |-> <<>>, clean |-> <<>>, train |-> <<>>]
    ELSE IF "MMSI" \notin c
    THEN [err |-> "KeyError", top |-> {}, sel |-> <<>>, clean |-> <<>>, train |-> <<>>]
    ELSE LET top == head_index(o)
             sel == isin_filter(d, top)
         IN IF missing(c) # {}
            THEN [err |-> "ValueError", top |-> top, sel |-> sel, clean |-> <<>>,
                  train |-> <<>>]
            ELSE LET clean == basic_cleaning(sel)
                     feat == build_phase_features(clean)
                 IN [err |-> "", top |-> top, sel |-> sel, clean |-> clean,
                     train |-> build_sequence_samples_limited(
                                   feat, SEQ_LEN, STOP_SPEED, MAX_TIME_GAP, STRIDE,
                                   MAX_SOG, MAX_SAMPLES_PER_GROUP, MAX_TOTAL_GROUPS)]

(***************************************************************************)
(* db_utils.py and process_single_file                                     *)
(***************************************************************************)
Years == {2023, 2024}
Months == {1, 2}
Payloads == {"a", "b"}
RegionOrder == <<"offshore", "bay">>

\* the datasets a region can yield, and what a file holds for one region:
\* no rows in the region's box (empty), or rows from which a dataset is built
Datasets == UNION {[1..n -> Payloads] : n \in 0..MaxTrain}
FileRegions ==
    {[empty |-> TRUE, train |-> <<>>]} \cup {[empty |-> FALSE, train |-> t] : t \in Datasets}

NoTable == [exists |-> FALSE, rows |-> <<>>]

\* df_to_write = df_train.copy(); df_to_write["id_month"] = month
df_to_write(train, m) == [i \in 1..Len(train) |-> [id_month |-> m, payload |-> train[i]]]

\* IF OBJECT_ID(tbl) IS NOT NULL DELETE FROM tbl WHERE id_month = m
delete_month_partition(tbl, m) ==
    IF tbl.exists
    THEN [tbl EXCEPT !.rows = SelectSeq(@, LAMBDA x : x.id_month # m)]
    ELSE tbl

write_training_table(dfw, tbl, replace_if_exists) ==
    IF dfw = <<>> THEN tbl
    ELSE IF replace_if_exists
         THEN [exists |-> TRUE, rows |-> dfw]
         ELSE [exists |-> TRUE, rows |-> tbl.rows \o dfw]

\* one pass of the loop over the regions of a file
process_region(tb, y, m, r, fr) ==
    IF fr.empty THEN tb
    ELSE [tb EXCEPT ![<<y, r>>] =
              write_training_table(df_to_write(fr.train, m),
                                   delete_month_partition(@, m), FALSE)]

RECURSIVE process_regions(_, _, _, _, _)
process_regions(tb, y, m, file, k) ==
    IF k > Len(RegionOrder) THEN tb
    ELSE process_regions(process_region(tb, y, m, RegionOrder[k], file[RegionOrder[k]]),
                         y, m, file, k + 1)

\* get_or_create_engine_for_year runs for every region that is not skipped
created_databases(dbs, y, file) ==
    IF \E r \in RegionNames : ~file[r].empty THEN dbs \cup {y} ELSE dbs

(***************************************************************************)
(* Initial states                                                          *)
(***************************************************************************)
NoRun == [n |-> 0, year |-> 0, month |-> 0, built |-> [r \in RegionNames |-> <<>>]]

InitCommon ==
    /\ gen = 0
    /\ df = <<>>
    /\ regions = NoRegions
    /\ err = ""
    /\ returned = FALSE
    /\ top_mmsi = {}
    /\ df_sel = <<>>
    /\ df_clean = <<>>
    /\ df_train = <<>>
    /\ tables = [k \in Years \X RegionNames |-> NoTable]
    /\ databases = {}
    /\ last = NoRun

Init == InitCommon /\ pc = "input" /\ cols = RequiredCols

InitSchema == InitCommon /\ pc = "input" /\ cols \in SUBSET RequiredCols

InitDB == InitCommon /\ pc = "db" /\ cols = RequiredCols

(***************************************************************************)
(* Table generators                                                        *)
(***************************************************************************)
LatVals == {331, 332, 341, 342, 375, 382, 383}
LonVals == {-1231, -1230, -1218, -1192, -1191, -1179, -1178}

\* a raw row anywhere around the two boxes
AddGeoRow ==
    /\ pc = "input"
    /\ Len(df) < MaxGeoRows
    /\ \E lat \in LatVals, lon \in LonVals :
         df' = Append(df, Row(Len(df) + 1, 1, 60 * (Len(df) + 1), lat, lon, 10))
    /\ UNCHANGED <<pc, gen, cols, regions, err, returned, top_mmsi, df_sel, df_clean,
                   df_train, tables, databases, last>>

\* the time of the last row that has one
RECURSIVE LastT(_, _)
LastT(d, i) ==
    IF i = 0 THEN 0
    ELSE IF d[i].BaseDateTime # NaT THEN d[i].BaseDateTime
    ELSE LastT(d, i - 1)

\* A row of a region table.  The regular row is vessel 1 at 10 knots, 60 s
\* after the previous one; a deviating row differs from it in one respect.
DevKinds == {"V", "L", "H", "B", "T", "G", "D", "O", "N"}

KindRow(kind, i, t0) ==
    CASE kind = "ok" -> Row(i, 1, t0 + 60, 378, -1224, 10)
      [] kind = "V" -> Row(i, 2, t0 + 60, 378, -1224, 10)    \* another vessel
      [] kind = "L" -> Row(i, 1, t0 + 60, 378, -1224, 5)     \* below 6 knots
      [] kind = "H" -> Row(i, 1, t0 + 60, 378, -1224, 41)    \* above 40 knots
      [] kind = "B" -> Row(i, 1, t0 + 300, 378, -1224, 6)    \* lowest speed, longest gap
      [] kind = "T" -> Row(i, 1, t0 + 60, 378, -1224, 40)    \* highest speed
      [] kind = "G" -> Row(i, 1, t0 + 301, 378, -1224, 10)   \* gap over 300 s
      [] kind = "D" -> Row(i, 1, t0, 378, -1224, 10)         \* repeated timestamp
      [] kind = "O" -> Row(i, 1, t0 - 90, 378, -1224, 10)    \* out of time order
      [] kind = "N" -> Row(i, 1, NaT, 378, -1224, 10)        \* unparseable timestamp

AddRow ==
    /\ pc = "input"
    /\ Len(df) < MaxRows
    /\ \E kind \in DevKinds \cup {"ok"} :
         /\ kind # "ok" => gen < MaxDev
         /\ kind = "O" => LastT(df, Len(df)) >= 90
         /\ df' = Append(df, KindRow(kind, Len(df) + 1, LastT(df, Len(df))))
         /\ gen' = IF kind = "ok" THEN gen ELSE gen + 1
    /\ UNCHANGED <<pc, cols, regions, err, returned, top_mmsi, df_sel, df_clean,
                   df_train, tables, databases, last>>

\* A track: n rows of the next vessel, 60 s apart, all at the same speed.
LongTrack == SEQ_LEN + MAX_SAMPLES_PER_GROUP + 1
TrackKinds == {<<0, 10>>, <<2, 10>>, <<LongTrack, 10>>, <<LongTrack, 5>>}

Track(v, n, sog, base) ==
    [j \in 1..n |-> Row(base + j, v, 60 * j, 378, -1224, sog)]

AddTrack ==
    /\ pc = "input"
    /\ gen < MaxTracks
    /\ \E k \in TrackKinds : df' = df \o Track(gen + 1, k[1], k[2], Len(df))
    /\ gen' = gen + 1
    /\ UNCHANGED <<pc, cols, regions, err, returned, top_mmsi, df_sel, df_clean,
                   df_train, tables, databases, last>>

AddSchemaRow ==
    /\ pc = "input"
    /\ Len(df) < MaxSchemaRows
    /\ df' = Append(df, Row(Len(df) + 1, 1, 60 * (Len(df) + 1), 378, -1224, 10))
    /\ UNCHANGED <<pc, gen, cols, regions, err, returned, top_mmsi, df_sel, df_clean,
                   df_train, tables, databases, last>>

(***************************************************************************)
(* Calls                                                                   *)
(***************************************************************************)
Split ==
    /\ pc = "input"
    /\ pc' = "split_done"
    /\ IF split_schema_ok(cols)
       THEN regions' = split_regions_by_lat(df) /\ err' = "" /\ returned' = TRUE
       ELSE regions' = NoRegions /\ err' = "ValueError" /\ returned' = FALSE
    /\ UNCHANGED <<gen, cols, df, top_mmsi, df_sel, df_clean, df_train, tables,
                   databases, last>>

Build ==
    /\ pc = "input"
    /\ pc' = "done"
    /\ \E o \in sorted_counts(df) :
         LET res == build_training_dataset_for_region(df, cols, o)
         IN /\ err' = res.err
            /\ returned' = (res.err = "")
            /\ top_mmsi' = res.top
            /\ df_sel' = res.sel
            /\ df_clean' = res.clean
            /\ df_train' = res.train
    /\ UNCHANGED <<gen, cols, df, regions, tables, databases, last>>

ProcessFile ==
    /\ pc = "db"
    /\ last.n < MaxRuns
    /\ \E y \in Years, m \in Months, file \in [RegionNames -> FileRegions] :
         /\ tables' = process_regions(tables, y, m, file, 1)
         /\ databases' = created_databases(databases, y, file)
         /\ last' = [n |-> last.n + 1, year |-> y, month |-> m,
                     built |-> [r \in RegionNames |-> file[r].train]]
    /\ UNCHANGED <<pc, gen, cols, df, regions, err, returned, top_mmsi, df_sel,
                   df_clean, df_train>>

(***************************************************************************)
(* Specifications                                                          *)
(***************************************************************************)
NextSplit == AddGeoRow \/ Split
SpecSplit == Init /\ [][NextSplit]_vars

NextRegion == AddRow \/ Build
SpecRegion == Init /\ [][NextRegion]_vars

NextCap == AddTrack \/ Build
SpecCap == Init /\ [][NextCap]_vars

NextSchema == AddSchemaRow \/ Split \/ Build
SpecSchema == InitSchema /\ [][NextSchema]_vars

NextDB == ProcessFile
SpecDB == InitDB /\ [][NextDB]_vars

\* every call on every table
InitAny == InitCommon /\ pc \in {"input", "db"} /\ cols \in SUBSET RequiredCols
Next == AddGeoRow \/ AddRow \/ AddTrack \/ AddSchemaRow \/ Split \/ Build \/ ProcessFile
Spec == InitAny /\ [][Next]_vars

(***************************************************************************)
(* Properties                                                              *)
(***************************************************************************)
\* b is row a of the raw table, whatever its index label
SameRow(a, b) ==
    /\ a.id = b.id
    /\ a.MMSI = b.MMSI
    /\ a.BaseDateTime = b.BaseDateTime
    /\ a.LAT = b.LAT
    /\ a.LON = b.LON
    /\ a.SOG = b.SOG

SpeedOk(r) == r.SOG >= 6 /\ r.SOG <= 40

\* the vessels that have a sample, and the samples of one vessel
SampleVessels == {df_train[k].win[1].MMSI : k \in 1..Len(df_train)}
SamplesOf(v) == Cardinality({k \in 1..Len(df_train) : df_train[k].win[1].MMSI = v})

\* rows of vessel v in the table as given, whatever their speed
RawCount(v) == Cardinality({i \in 1..Len(df) : df[i].MMSI = v})

\* row i of the table comes before row j in its vessel's trajectory
Before(i, j) ==
    \/ df[i].BaseDateTime < df[j].BaseDateTime
    \/ df[i].BaseDateTime = df[j].BaseDateTime /\ i < j

Rank(j) == Cardinality({i \in 1..Len(df) : Before(i, j)})

\* C1: every sample of the returned dataset is built from SEQ_LEN (10)
\* distinct rows of the region table, all of one vessel, each with a speed in
\* [6, 40], taken in time order with at most 300 s between consecutive rows.
C1_WindowsValid ==
    pc = "done" =>
      \A k \in 1..Len(df_train) :
        LET w == df_train[k].win
        IN /\ Len(w) = SEQ_LEN
           /\ \A j \in 1..Len(w) :
                /\ w[j].id \in 1..Len(df)
                /\ SameRow(w[j], df[w[j].id])
                /\ SpeedOk(w[j])
                /\ w[j].MMSI = w[1].MMSI
           /\ \A i, j \in 1..Len(w) : i # j => w[i].id # w[j].id
           /\ \A j \in 1..(Len(w) - 1) :
                /\ w[j + 1].BaseDateTime - w[j].BaseDateTime <= 300
                /\ w[j + 1].BaseDateTime - w[j].BaseDateTime >= 0

\* a dataset with samples built from a table that holds a row outside [6, 40]
C1_Witness ==
    /\ pc = "done"
    /\ df_train # <<>>
    /\ \E i \in 1..Len(df) : ~SpeedOk(df[i])

\* row i of the table is a discontinuity of its vessel's trajectory: its
\* speed is outside [6, 40], or it comes more than 300 s after the row before
Offending(i) ==
    \/ ~SpeedOk(df[i])
    \/ /\ \E h \in 1..Len(df) : df[h].MMSI = df[i].MMSI /\ df[h].BaseDateTime # NaT
                                 /\ Before(h, i)
       /\ \A h \in 1..Len(df) :
            (df[h].MMSI = df[i].MMSI /\ df[h].BaseDateTime # NaT /\ Before(h, i))
              => df[i].BaseDateTime - df[h].BaseDateTime > 300

\* C2: no sample has two adjacent window rows with an offending row of the
\* same vessel between them in time.
C2_NoStitching ==
    pc = "done" =>
      \A k \in 1..Len(df_train) :
        LET w == df_train[k].win
        IN \A j \in 1..(Len(w) - 1) :
             ~ \E i \in 1..Len(df) :
                 /\ df[i].MMSI = w[j].MMSI
                 /\ df[i].BaseDateTime # NaT
                 /\ Offending(i)
                 /\ w[j].BaseDateTime < df[i].BaseDateTime
                 /\ df[i].BaseDateTime < w[j + 1].BaseDateTime

\* the table is one trajectory of valid rows: one vessel, every timestamp
\* parsed, every speed in [6, 40], no gap over 300 s
ValidTrajectory ==
    /\ \A i \in 1..Len(df) :
         /\ df[i].MMSI = df[1].MMSI
         /\ df[i].BaseDateTime # NaT
         /\ SpeedOk(df[i])
    /\ \A j \in 1..Len(df) :
         \/ \A i \in 1..Len(df) : ~Before(i, j)
         \/ \E i \in 1..Len(df) :
              Before(i, j) /\ df[j].BaseDateTime - df[i].BaseDateTime <= 300

\* sample k is the window that starts at row k - 1 of the trajectory, with
\* the row after the window as its target
WindowAt(k) ==
    /\ \A j \in 1..SEQ_LEN : Rank(df_train[k].win[j].id) = k - 1 + j - 1
    /\ Rank(df_train[k].target.id) = k - 1 + SEQ_LEN

\* C3 as stated: a valid trajectory of n rows gives exactly max(0, n - 10)
\* samples, one per window start 0 .. n - 11, in order.
C3_ExactCount ==
    (pc = "done" /\ ValidTrajectory) =>
      /\ Len(df_train) = Max(0, Len(df) - SEQ_LEN)
      /\ \A k \in 1..Len(df_train) : WindowAt(k)

\* C3 as amended: a valid trajectory of n rows gives exactly
\* min(MAX_SAMPLES_PER_GROUP, max(0, n - 10)) samples, one per window start
\* from 0 on, in order: 10 rows give none, 11 give one, 12 give two.
C3_CountUpToCap ==
    (pc = "done" /\ ValidTrajectory) =>
      /\ Len(df_train) = Min(MAX_SAMPLES_PER_GROUP, Max(0, Len(df) - SEQ_LEN))
      /\ \A k \in 1..Len(df_train) : WindowAt(k)

\* a valid trajectory of 12 rows with its two samples
C3_Witness ==
    /\ pc = "done"
    /\ ValidTrajectory
    /\ Len(df) = SEQ_LEN + 2
    /\ Len(df_train) = 2

\* C4: no vessel has more than MAX_SAMPLES_PER_GROUP samples, the samples
\* come from at most MAX_TOTAL_GROUPS vessels, these are among the first
\* MAX_TOTAL_GROUPS vessel groups of the cleaned table in processing order,
\* and at most TOP_MMSI_PER_REGION vessels reach cleaning.
C4_Caps ==
    pc = "done" =>
      /\ \A v \in Vessels(df) : SamplesOf(v) <= MAX_SAMPLES_PER_GROUP
      /\ Cardinality(SampleVessels) <= MAX_TOTAL_GROUPS
      /\ \A v \in SampleVessels :
           Cardinality({w \in Vessels(df_clean) : w < v}) < MAX_TOTAL_GROUPS
      /\ Cardinality(Vessels(df_sel)) <= TOP_MMSI_PER_REGION

\* more vessels than the selection keeps, a cleaned vessel with rows enough
\* for a window that is past the group cap and has no sample, and a vessel
\* with more windows than its cap
C4_Witness ==
    /\ pc = "done"
    /\ Cardinality(Vessels(df)) > TOP_MMSI_PER_REGION
    /\ \E w \in Vessels(df_clean) \ SampleVessels :
         Cardinality({i \in 1..Len(df_clean) : df_clean[i].MMSI = w}) > SEQ_LEN
    /\ \E v \in SampleVessels :
         /\ SamplesOf(v) = MAX_SAMPLES_PER_GROUP
         /\ Cardinality({i \in 1..Len(df_clean) : df_clean[i].MMSI = v})
              > SEQ_LEN + MAX_SAMPLES_PER_GROUP

InOffshoreBox(r) == r.LAT >= 332 /\ r.LAT <= 341 /\ r.LON >= -1191 /\ r.LON <= -1179
InBayBox(r) == r.LAT >= 375 /\ r.LAT <= 382 /\ r.LON >= -1230 /\ r.LON <= -1218

\* C5: no row of the table is in both region outputs.
C5_Disjoint ==
    pc = "split_done" =>
      \A i \in 1..Len(regions.offshore), j \in 1..Len(regions.bay) :
        regions.offshore[i].id # regions.bay[j].id

C5_Witness ==
    /\ pc = "split_done"
    /\ regions.offshore # <<>>
    /\ regions.bay # <<>>

\* out is exactly the rows of the table that satisfy InBox, in table order,
\* with index labels 0..n-1
ExactSubsequence(out, InBox(_)) ==
    /\ \A i \in 1..Len(out) :
         /\ out[i].idx = i - 1
         /\ out[i].id \in 1..Len(df)
         /\ SameRow(out[i], df[out[i].id])
         /\ InBox(out[i])
    /\ \A i, j \in 1..Len(out) : i < j => out[i].id < out[j].id
    /\ \A i \in 1..Len(df) : InBox(df[i]) => \E j \in 1..Len(out) : out[j].id = i

\* C6: each region output is exactly the rows inside the region's box
\* (bounds inclusive), in table order, renumbered from 0.
C6_SplitExact ==
    pc = "split_done" =>
      /\ ExactSubsequence(regions.offshore, InOffshoreBox)
      /\ ExactSubsequence(regions.bay, InBayBox)

\* a row on the lower-left corner of the offshore box is in the offshore
\* output, next to a row that is in neither output
C6_Witness ==
    /\ pc = "split_done"
    /\ \E i \in 1..Len(regions.offshore) :
         regions.offshore[i].LAT = 332 /\ regions.offshore[i].LON = -1191
    /\ Len(df) > Len(regions.offshore) + Len(regions.bay)

C8_SortedNoDuplicates ==
    pc = "done" =>
      /\ \A i \in 1..(Len(df_clean) - 1) :
           \/ df_clean[i].MMSI < df_clean[i + 1].MMSI
           \/ /\ df_clean[i].MMSI = df_clean[i + 1].MMSI
              /\ df_clean[i].BaseDateTime <= df_clean[i + 1].BaseDateTime
      /\ \A i, j \in 1..Len(df_clean) :
           i # j => ~ /\ df_clean[i].MMSI = df_clean[j].MMSI
                      /\ df_clean[i].BaseDateTime = df_clean[j].BaseDateTime

\* the rows of month m in a table, as their payloads
MonthRows(tbl, m) ==
    LET sel == SelectSeq(tbl.rows, LAMBDA x : x.id_month = m)
    IN [i \in 1..Len(sel) |-> sel[i].payload]

\* C9: after a run for (year, month), the rows of that month in each region's
\* table of that year are exactly the rows of the dataset the run built for
\* the region.
C9_MonthReplaced ==
    last.n > 0 =>
      \A r \in RegionNames :
        MonthRows(tables[<<last.year, r>>], last.month) = last.built[r]

====
